---- MODULE Spec2Model ----
(***************************************************************************)
(* Model of python-skeleton.py: the start-up sequence of main(), the       *)
(* prerequisite check, config loading, execute()/bar(), the signal handler *)
(* and the way each path fixes the process exit status.                    *)
(*                                                                         *)
(* Every log call and every control transfer of the script is one step;    *)
(* a signal may be delivered between any two steps (CPython runs a Python  *)
(* signal handler between two bytecodes of the main thread).  The handler  *)
(* itself is one step.  sys.exit() raises SystemExit, which is not an      *)
(* Exception: no "except Exception" clause of the script catches it, so it *)
(* leaves main() and ends the process with its code.                       *)
(***************************************************************************)
EXTENDS Integers, Sequences, FiniteSets, TLC

\* Bounds of the model.
MaxBinaries == 2      \* length of the longest REQUIRED_BINARIES list explored
MaxSignals == 2       \* signals delivered in one run

NoCode == 0 - 1       \* exitCode while the process is still running

VARIABLES
    args,             \* the parsed command line (argparse.Namespace) and what its paths point at
    required,         \* REQUIRED_BINARIES
    onPath,           \* the binaries shutil.which resolves
    fault,            \* where an unexpected Exception is raised: "none", "prereq", "bar"
    pc,               \* position of the main thread
    log,              \* the log events emitted so far, in order
    exitCode,         \* the process exit status, NoCode while running
    mainResult,       \* how main() ended: "running", "returned", "SystemExit"
    handlers,         \* TRUE once setup_signal_handlers() has run
    delivered,        \* the signals handled by signal_handler so far, in order
    kbdint,           \* TRUE once SIGINT arrived under Python's default handler
    idx,              \* check_prerequisites: position in REQUIRED_BINARIES
    missing_counter,  \* check_prerequisites: missing_counter
    fileIO,           \* the files opened so far: "log_file", "config"
    executeState,     \* execute(): "notcalled", "running", "returned", "raised"
    barCalled,        \* TRUE once bar() was entered
    BAR,              \* globals().get('BAR'): "unset" or the config's value
    unhandled         \* TRUE once an Exception no inner handler catches was raised

vars == <<args, required, onPath, fault, pc, log, exitCode, mainResult, handlers,
          delivered, kbdint, idx, missing_counter, fileIO, executeState, barCalled, BAR,
          unhandled>>

env == <<args, required, onPath, fault>>

----------------------------------------------------------------------------
\* Inputs

\* What --config points at: no flag, a path that does not exist, a path that
\* exists but is no regular file, a file open() fails on, a file whose code
\* raises, a well-formed file.
ConfigStates == {"none", "missing", "notfile", "unreadable", "malformed", "ok"}

\* What --log-file points at: no flag, a writable path, a path whose directory
\* does not exist, a path logging.FileHandler fails to open.
LogFileStates == {"none", "ok", "nodir", "openfail"}

Args == [config : ConfigStates, log_file : LogFileStates, dry_run : BOOLEAN,
         verbose : BOOLEAN, help : BOOLEAN]

Binaries == 1 .. MaxBinaries

Faults == {"none", "prereq", "bar"}

\* The signals setup_signal_handlers registers signal_handler for.
Registered == {"INT", "TERM", "HUP", "QUIT", "ABRT", "ALRM"}

TermSignals == {"INT", "TERM", "QUIT", "ABRT"}

----------------------------------------------------------------------------
\* Log events

Ev(src, level, msg) ==
    [src |-> src, level |-> level, msg |-> msg, names |-> {}, n |-> 0, sig |-> ""]

\* logger.<level>(...): the logger's level is DEBUG with --verbose, else INFO.
Emit(l, e) == IF e.level = "DEBUG" /\ ~args.verbose THEN l ELSE Append(l, e)

----------------------------------------------------------------------------
\* Pure parts of the script

\* parse_arguments(): the exit status argparse ends the process with, or
\* NoCode when the arguments are returned. --help prints the usage and exits
\* 0; parser.error() prints to stderr and exits 2.
parse_arguments(a) ==
    IF a.help THEN 0
    ELSE IF a.config # "none" /\ a.config = "missing" THEN 2
    ELSE IF a.log_file # "none" /\ a.log_file = "nodir" THEN 2
    ELSE NoCode

\* signal_handler whose termination branch logs but does not call sys.exit(1).
signal_handler_term_returns(signum) ==
    [ev |-> [Ev("signal_handler", "WARNING",
                IF signum \in {"INT", "TERM", "QUIT", "ABRT"} THEN "terminated_by_signal"
                ELSE IF signum = "HUP" THEN "hangup_received" ELSE "alarm_received")
               EXCEPT !.sig = signum],
     exit |-> FALSE]

\* signal_handler whose hangup branch falls into sys.exit(1) as well.
signal_handler_hup_exits(signum) ==
    [ev |-> [Ev("signal_handler", "WARNING",
                IF signum \in {"INT", "TERM", "QUIT", "ABRT"} THEN "terminated_by_signal"
                ELSE IF signum = "HUP" THEN "hangup_received" ELSE "alarm_received")
               EXCEPT !.sig = signum],
     exit |-> signum # "ALRM"]

\* signal_handler(signum, frame): the event logged and whether sys.exit(1)
\* is called.
signal_handler(signum) ==
    LET signal_name == IF signum \in Registered THEN signum ELSE "UNKNOWN"
    IN  IF signal_name \in {"INT", "TERM", "QUIT", "ABRT"}
        THEN [ev |-> [Ev("signal_handler", "WARNING", "terminated_by_signal")
                        EXCEPT !.sig = signal_name],
              exit |-> TRUE]
        ELSE IF signal_name = "HUP"
        THEN [ev |-> [Ev("signal_handler", "WARNING", "hangup_received")
                        EXCEPT !.sig = signal_name],
              exit |-> FALSE]
        ELSE IF signal_name = "ALRM"
        THEN [ev |-> [Ev("signal_handler", "WARNING", "alarm_received")
                        EXCEPT !.sig = signal_name],
              exit |-> FALSE]
        ELSE [ev |-> Ev("errexit", "CRITICAL", "unknown_signal"), exit |-> TRUE]

\* The event check_prerequisites logs for one missing binary.
MissingBinaryEvent(binary) ==
    [Ev("check_prerequisites", "ERROR", "missing_required_binary") EXCEPT !.names = {binary}]

\* The event check_prerequisites logs when missing_counter != 0.
MissingSummaryEvent(counter) ==
    [Ev("check_prerequisites", "CRITICAL", "required_binaries_missing") EXCEPT !.n = counter]

----------------------------------------------------------------------------
Init ==
    /\ args \in Args
    /\ \E n \in 0 .. MaxBinaries : required = [k \in 1 .. n |-> k]
    /\ onPath \in SUBSET Binaries
    /\ fault \in Faults
    /\ pc = "parse_arguments"
    /\ log = <<>>
    /\ exitCode = NoCode
    /\ mainResult = "running"
    /\ handlers = FALSE
    /\ delivered = <<>>
    /\ kbdint = FALSE
    /\ idx = 1
    /\ missing_counter = 0
    /\ fileIO = {}
    /\ executeState = "notcalled"
    /\ barCalled = FALSE
    /\ BAR = "unset"
    /\ unhandled = FALSE

\* Frame helpers
Locals == <<idx, missing_counter>>
Hist == <<fileIO, executeState, barCalled, BAR, unhandled>>
Sig == <<handlers, delivered, kbdint>>
Run == <<exitCode, mainResult>>

\* A step that only logs one event and moves on.
LogStep(from, e, to) ==
    /\ pc = from
    /\ log' = Emit(log, e)
    /\ pc' = to
    /\ UNCHANGED <<env, Run, Sig, Locals, Hist>>

\* SystemExit(code) leaves main(): the process ends with code.
SysExit(code) ==
    /\ pc' = "exited"
    /\ exitCode' = code
    /\ mainResult' = "SystemExit"

----------------------------------------------------------------------------
\* main(), lines 285-302

main_parse_arguments ==
    /\ pc = "parse_arguments"
    /\ LET r == parse_arguments(args)
       IN  IF r # NoCode THEN SysExit(r)
           ELSE pc' = "configure_logging" /\ UNCHANGED Run
    /\ UNCHANGED <<env, log, Sig, Locals, Hist>>

\* configure_logging(args.verbose): basicConfig and setLevel; with these fixed
\* arguments neither raises.
configure_logging ==
    /\ pc = "configure_logging"
    /\ pc' = "log_file"
    /\ UNCHANGED <<env, log, Run, Sig, Locals, Hist>>

main_log_file ==
    /\ pc = "log_file"
    /\ IF args.log_file = "none"
       THEN pc' = "debug_start" /\ UNCHANGED <<log, fileIO>>
       ELSE IF args.log_file = "openfail"
       THEN /\ log' = Emit(log, Ev("main", "ERROR", "failed_to_create_log_file"))
            /\ pc' = "return1"
            /\ UNCHANGED fileIO
       ELSE /\ fileIO' = fileIO \cup {"log_file"}
            /\ pc' = "debug_start"
            /\ UNCHANGED log
    /\ UNCHANGED <<env, Run, Sig, Locals, executeState, barCalled, BAR, unhandled>>

main_debug_start ==
    LogStep("debug_start", Ev("main", "DEBUG", "starting_script_execution"),
            "setup_signal_handlers")

setup_signal_handlers ==
    /\ pc = "setup_signal_handlers"
    /\ handlers' = TRUE
    /\ pc' = "check_prerequisites"
    /\ UNCHANGED <<env, log, Run, delivered, kbdint, Locals, Hist>>

----------------------------------------------------------------------------
\* check_prerequisites()

check_prerequisites_begin ==
    /\ pc = "check_prerequisites"
    /\ log' = Emit(log, Ev("check_prerequisites", "DEBUG", "checking_prerequisites"))
    /\ missing_counter' = 0
    /\ idx' = 1
    /\ pc' = "prereq_loop"
    /\ UNCHANGED <<env, Run, Sig, Hist>>

check_prerequisites_loop ==
    /\ pc = "prereq_loop"
    /\ idx <= Len(required)
    /\ IF fault = "prereq"
       THEN pc' = "except_Exception" /\ unhandled' = TRUE /\ UNCHANGED <<log, Locals>>
       ELSE /\ pc' = "prereq_loop"
            /\ idx' = idx + 1
            /\ IF required[idx] \notin onPath
               THEN /\ log' = Emit(log, MissingBinaryEvent(required[idx]))
                    /\ missing_counter' = missing_counter + 1
               ELSE UNCHANGED <<log, missing_counter>>
            /\ UNCHANGED unhandled
    /\ UNCHANGED <<env, Run, Sig, fileIO, executeState, barCalled, BAR>>

check_prerequisites_end ==
    /\ pc = "prereq_loop"
    /\ idx > Len(required)
    /\ IF missing_counter # 0
       THEN /\ log' = Emit(log, MissingSummaryEvent(missing_counter))
            /\ pc' = "prereq_exit"
       ELSE /\ log' = Emit(log, Ev("check_prerequisites", "DEBUG", "all_prerequisites_met"))
            /\ pc' = "config_check"
    /\ UNCHANGED <<env, Run, Sig, Locals, Hist>>

check_prerequisites_exit ==
    /\ pc = "prereq_exit"
    /\ SysExit(1)
    /\ UNCHANGED <<env, log, Sig, Locals, Hist>>

----------------------------------------------------------------------------
\* main(), lines 310-319, and load_config()

main_config_check ==
    /\ pc = "config_check"
    /\ IF args.config # "none"
       THEN pc' = "load_config" /\ UNCHANGED log
       ELSE /\ log' = Emit(log, Ev("main", "INFO", "no_config_file_passed_in"))
            /\ pc' = "execute"
    /\ UNCHANGED <<env, Run, Sig, Locals, Hist>>

\* os.path.isfile(config_file), then open() and exec() of the file's text.
load_config_open ==
    /\ pc = "load_config"
    /\ IF args.config \in {"missing", "notfile"}
       THEN pc' = "load_config_not_found" /\ UNCHANGED <<fileIO, BAR>>
       ELSE IF args.config = "unreadable"
       THEN pc' = "load_config_except" /\ UNCHANGED <<fileIO, BAR>>
       ELSE IF args.config = "malformed"
       THEN /\ fileIO' = fileIO \cup {"config"}
            /\ pc' = "load_config_except"
            /\ UNCHANGED BAR
       ELSE /\ fileIO' = fileIO \cup {"config"}
            /\ BAR' = "custom"
            /\ pc' = "load_config_loaded"
    /\ UNCHANGED <<env, log, Run, Sig, Locals, executeState, barCalled, unhandled>>

load_config_loaded ==
    LogStep("load_config_loaded", Ev("load_config", "INFO", "config_file_loaded"), "execute")

load_config_except ==
    LogStep("load_config_except", Ev("load_config", "ERROR", "error_loading_config_file"),
            "load_config_errexit")

\* errexit(message): logger.critical, then sys.exit(1).
load_config_errexit ==
    LogStep("load_config_errexit", Ev("errexit", "CRITICAL", "error_loading_config_file"),
            "errexit_exit")

load_config_not_found ==
    LogStep("load_config_not_found", Ev("errexit", "CRITICAL", "config_file_not_found"),
            "errexit_exit")

errexit_exit ==
    /\ pc = "errexit_exit"
    /\ SysExit(1)
    /\ UNCHANGED <<env, log, Sig, Locals, Hist>>

----------------------------------------------------------------------------
\* execute(args) and bar()

execute_enter ==
    /\ pc = "execute"
    /\ executeState' = "running"
    /\ IF args.dry_run
       THEN /\ log' = Emit(log, Ev("execute", "INFO", "dry_run_mode"))
            /\ pc' = "execute_dry_foo"
       ELSE /\ log' = Emit(log, Ev("execute", "INFO", "executing_processes"))
            /\ pc' = "execute_foo"
    /\ UNCHANGED <<env, Run, Sig, Locals, fileIO, barCalled, BAR, unhandled>>

execute_dry_foo ==
    LogStep("execute_dry_foo", Ev("execute", "INFO", "would_execute_with_foo"),
            "execute_dry_bar")

\* The dry-run branch without its return: it falls through to the real run.
execute_dry_bar_falls_through ==
    /\ pc = "execute_dry_bar"
    /\ log' = Emit(log, Ev("execute", "INFO", "would_call_bar"))
    /\ pc' = "execute_foo"
    /\ UNCHANGED <<env, Run, Sig, Locals, Hist>>

execute_dry_bar ==
    /\ pc = "execute_dry_bar"
    /\ log' = Emit(log, Ev("execute", "INFO", "would_call_bar"))
    /\ executeState' = "returned"
    /\ pc' = "completed"
    /\ UNCHANGED <<env, Run, Sig, Locals, fileIO, barCalled, BAR, unhandled>>

execute_foo ==
    LogStep("execute_foo", Ev("execute", "INFO", "foo"), "bar")

\* bar() is entered; an unexpected Exception raised in it reaches execute's
\* except clause.
bar_enter ==
    /\ pc = "bar"
    /\ barCalled' = TRUE
    /\ IF fault = "bar"
       THEN pc' = "execute_except" /\ UNCHANGED log
       ELSE /\ log' = Emit(log, Ev("bar", "DEBUG", "bar_successfully_executed"))
            /\ pc' = "bar_value"
    /\ UNCHANGED <<env, Run, Sig, Locals, fileIO, executeState, BAR, unhandled>>

bar_value ==
    /\ pc = "bar_value"
    /\ log' = Emit(log, [Ev("bar", "INFO", "bar_value") EXCEPT !.sig = BAR])
    /\ executeState' = "returned"
    /\ pc' = "completed"
    /\ UNCHANGED <<env, Run, Sig, Locals, fileIO, barCalled, BAR, unhandled>>

\* except Exception in execute: log the error and re-raise.
execute_except ==
    /\ pc = "execute_except"
    /\ log' = Emit(log, Ev("execute", "ERROR", "error_in_execution_process"))
    /\ executeState' = "raised"
    /\ pc' = "main_execute_except"
    /\ UNCHANGED <<env, Run, Sig, Locals, fileIO, barCalled, BAR, unhandled>>

----------------------------------------------------------------------------
\* main(), lines 324-341, and the module's last line

\* The handler of an execution fault returning 0.
main_execute_except_returns0 ==
    LogStep("main_execute_except", Ev("main", "ERROR", "error_in_main_execution"), "return0")

main_execute_except ==
    LogStep("main_execute_except", Ev("main", "ERROR", "error_in_main_execution"), "return1")

main_completed ==
    LogStep("completed", Ev("main", "INFO", "process_completed_successfully"), "return0")

\* The success path returning 1.
main_return0_returns1 ==
    /\ pc = "return0"
    /\ mainResult' = "returned"
    /\ UNCHANGED exitCode
    /\ pc' = "sys_exit_1"
    /\ UNCHANGED <<env, log, Sig, Locals, Hist>>

\* return 0: main() hands 0 to sys.exit().
main_return0 ==
    /\ pc = "return0"
    /\ mainResult' = "returned"
    /\ UNCHANGED exitCode
    /\ pc' = "sys_exit_0"
    /\ UNCHANGED <<env, log, Sig, Locals, Hist>>

\* return 1
main_return1 ==
    /\ pc = "return1"
    /\ mainResult' = "returned"
    /\ UNCHANGED exitCode
    /\ pc' = "sys_exit_1"
    /\ UNCHANGED <<env, log, Sig, Locals, Hist>>

\* sys.exit(main())
sys_exit_main ==
    /\ pc \in {"sys_exit_0", "sys_exit_1"}
    /\ exitCode' = IF pc = "sys_exit_0" THEN 0 ELSE 1
    /\ pc' = "exited"
    /\ UNCHANGED <<env, log, mainResult, Sig, Locals, Hist>>

\* except KeyboardInterrupt
main_except_KeyboardInterrupt ==
    LogStep("except_KeyboardInterrupt",
            Ev("main", "WARNING", "script_execution_interrupted_by_user"), "return1")

\* The global handler logging and re-raising: the Exception leaves main().
main_except_Exception_reraises ==
    /\ pc = "except_Exception"
    /\ log' = Emit(log, Ev("main", "CRITICAL", "unhandled_exception"))
    /\ pc' = "exited"
    /\ exitCode' = 1
    /\ mainResult' = "Exception"
    /\ UNCHANGED <<env, Sig, Locals, Hist>>

\* except Exception: the global handler.
main_except_Exception ==
    LogStep("except_Exception", Ev("main", "CRITICAL", "unhandled_exception"),
            "except_Exception_details")

main_except_Exception_details ==
    LogStep("except_Exception_details", Ev("main", "DEBUG", "exception_details"), "return1")

----------------------------------------------------------------------------
\* Signals

\* A registered signal is delivered once setup_signal_handlers() has run:
\* signal_handler logs and, for a termination signal, raises SystemExit(1)
\* at the interrupted position; nothing of main() catches it.
DeliverSignal ==
    /\ handlers
    /\ pc # "exited"
    /\ Len(delivered) < MaxSignals
    /\ \E signum \in Registered :
         LET r == signal_handler(signum)
         IN  /\ delivered' = Append(delivered, signum)
             /\ log' = Emit(log, r.ev)
             /\ IF r.exit
                THEN /\ pc' = "exited"
                     /\ exitCode' = 1
                     /\ mainResult' = IF mainResult = "returned" THEN "returned"
                                      ELSE "SystemExit"
                ELSE UNCHANGED <<pc, Run>>
    /\ UNCHANGED <<env, handlers, kbdint, Locals, Hist>>

\* SIGINT before setup_signal_handlers() has run: Python's default handler
\* raises KeyboardInterrupt inside main()'s try block.
KeyboardInterrupt ==
    /\ ~handlers
    /\ ~kbdint
    /\ pc \in {"parse_arguments", "configure_logging", "log_file", "debug_start",
               "setup_signal_handlers"}
    /\ kbdint' = TRUE
    /\ pc' = "except_KeyboardInterrupt"
    /\ UNCHANGED <<env, log, Run, handlers, delivered, Locals, Hist>>

----------------------------------------------------------------------------
Next ==
    \/ main_parse_arguments
    \/ configure_logging
    \/ main_log_file
    \/ main_debug_start
    \/ setup_signal_handlers
    \/ check_prerequisites_begin
    \/ check_prerequisites_loop
    \/ check_prerequisites_end
    \/ check_prerequisites_exit
    \/ main_config_check
    \/ load_config_open
    \/ load_config_loaded
    \/ load_config_except
    \/ load_config_errexit
    \/ load_config_not_found
    \/ errexit_exit
    \/ execute_enter
    \/ execute_dry_foo
    \/ execute_dry_bar
    \/ execute_foo
    \/ bar_enter
    \/ bar_value
    \/ execute_except
    \/ main_execute_except
    \/ main_completed
    \/ main_return0
    \/ main_return1
    \/ sys_exit_main
    \/ main_except_KeyboardInterrupt
    \/ main_except_Exception
    \/ main_except_Exception_details
    \/ DeliverSignal
    \/ KeyboardInterrupt

Spec == Init /\ [][Next]_vars

----------------------------------------------------------------------------
\* Derived notions used by the properties

TermDelivered == \E k \in 1 .. Len(delivered) : delivered[k] \in TermSignals

\* The required binaries shutil.which does not resolve.
Missing == {required[k] : k \in 1 .. Len(required)} \ onPath

\* The positions of the log holding an event with message m.
At(m) == {k \in 1 .. Len(log) : log[k].msg = m}

IsExecEvent(e) == e.src \in {"execute", "bar"}

\* The events logged by execute() and bar(), in order.
ExecEvents == SelectSeq(log, IsExecEvent)

\* The events that explain why the process ends: every WARNING, ERROR and
\* CRITICAL event except the hangup and alarm notices, and the success event.
IsCauseEvent(e) ==
    \/ e.level \in {"ERROR", "CRITICAL"}
    \/ e.level = "WARNING" /\ e.msg \notin {"hangup_received", "alarm_received"}
    \/ e.msg = "process_completed_successfully"

CauseEvents == SelectSeq(log, IsCauseEvent)

\* The last signal_handler ran for a hangup or alarm signal in this step.
HupOrAlrmStep ==
    /\ Len(delivered') = Len(delivered) + 1
    /\ delivered'[Len(delivered')] \in {"HUP", "ALRM"}

----------------------------------------------------------------------------
\* C1: once a termination signal (INT, TERM, QUIT, ABRT) has been handled
\* by signal_handler, the process has exited with status 1, that signal is the
\* last one delivered, exactly one "terminated by signal" WARNING was logged,
\* it names the signal and it is the last event of the log: no step of main(),
\* load_config, execute or bar ran after it.
C1_TerminationSignalExits ==
    TermDelivered =>
        /\ pc = "exited"
        /\ exitCode = 1
        /\ mainResult # "Exception"
        /\ \A k \in 1 .. Len(delivered) - 1 : delivered[k] \notin TermSignals
        /\ Cardinality(At("terminated_by_signal")) = 1
        /\ log # <<>>
        /\ log[Len(log)].msg = "terminated_by_signal"
        /\ log[Len(log)].level = "WARNING"
        /\ log[Len(log)].sig = delivered[Len(delivered)]

\* A termination signal arrived while execute() was running, after bar() was entered.
C1_Witness == TermDelivered /\ executeState = "running" /\ barCalled

\* C2: a step in which SIGHUP or SIGALRM is handled appends exactly one
\* WARNING naming the signal to the log and changes nothing else: the position
\* of main(), the exit status, the locals and everything execute and
\* load_config did stay as they were, so the run goes on as without the signal.
C2_HangupAlarmOnlyWarns ==
    [][HupOrAlrmStep =>
          /\ Len(log') = Len(log) + 1
          /\ SubSeq(log', 1, Len(log)) = log
          /\ log'[Len(log')].level = "WARNING"
          /\ log'[Len(log')].sig = delivered'[Len(delivered')]
          /\ log'[Len(log')].msg \in {"hangup_received", "alarm_received"}
          /\ UNCHANGED <<env, pc, exitCode, mainResult, handlers, kbdint, idx,
                         missing_counter, fileIO, executeState, barCalled, BAR, unhandled>>
      ]_vars

\* A run that handled SIGHUP and SIGALRM and still completed with status 0.
C2_Witness ==
    /\ pc = "exited"
    /\ exitCode = 0
    /\ \E k \in 1 .. Len(delivered) : delivered[k] = "HUP"
    /\ \E k \in 1 .. Len(delivered) : delivered[k] = "ALRM"
    /\ At("process_completed_successfully") # {}

\* C3: the process exit status is 0 or 1 in every run.
C3_ExitCodeZeroOrOne == pc = "exited" => exitCode \in {0, 1}

\* C4 as stated: status 0 only if execute() returned without raising and no
\* termination signal was received.
C4_ZeroOnlyAfterExecute ==
    (pc = "exited" /\ exitCode = 0) =>
        executeState = "returned" /\ ~TermDelivered /\ ~kbdint

\* A start-up step of a run that got past argparse failed.
StartupFailed ==
    /\ ~args.help
    /\ \/ args.config \in {"missing", "notfile", "unreadable", "malformed"}
       \/ args.log_file \in {"nodir", "openfail"}
       \/ Missing # {}
       \/ fault = "prereq" /\ Len(required) > 0

\* C4, amended: status 0 only if argparse answered --help before any
\* start-up step ran, or execute() returned without raising and no termination
\* signal was received; a run in which execute raised, a start-up step failed
\* or a termination signal arrived ends with a non-zero status.
C4_ZeroOnlyAfterExecuteOrHelp ==
    pc = "exited" =>
        /\ exitCode = 0 =>
              \/ args.help /\ executeState = "notcalled" /\ log = <<>> /\ ~handlers
              \/ executeState = "returned" /\ ~TermDelivered /\ ~kbdint
        /\ (executeState = "raised" \/ TermDelivered \/ kbdint \/ StartupFailed)
              => exitCode # 0

\* execute() raised in bar() and the run ended without any signal.
C4_Witness ==
    /\ pc = "exited"
    /\ executeState = "raised"
    /\ delivered = <<>>
    /\ exitCode = 1

\* The run reached check_prerequisites with a binary missing and was not cut
\* short by a termination signal or an unexpected Exception.
MissingPrerequisiteRun ==
    /\ pc = "exited"
    /\ handlers
    /\ Missing # {}
    /\ fault # "prereq"
    /\ ~TermDelivered

\* C5: with a required binary missing the run ends with status 1, exactly
\* one CRITICAL event is logged, that event lists the names of all missing
\* binaries, and neither load_config nor execute is invoked.
C5_OneCriticalNamesAllMissing ==
    MissingPrerequisiteRun =>
        /\ exitCode = 1
        /\ Cardinality({k \in 1 .. Len(log) : log[k].level = "CRITICAL"}) = 1
        /\ \A k \in 1 .. Len(log) : log[k].level = "CRITICAL" => log[k].names = Missing
        /\ executeState = "notcalled"
        /\ "config" \notin fileIO
        /\ BAR = "unset"

\* The run got past argparse's own checks of the log file, the log file opened,
\* every prerequisite was met, and no signal or unexpected Exception cut it
\* short before the config was loaded.
BadConfigRun ==
    /\ pc = "exited"
    /\ args.config \in {"missing", "unreadable", "malformed"}
    /\ ~args.help
    /\ args.log_file \in {"none", "ok"}
    /\ Missing = {}
    /\ fault # "prereq"
    /\ ~kbdint
    /\ ~TermDelivered

\* C6: with a config path that is missing, unreadable or malformed the run
\* ends with status 1, an ERROR or CRITICAL event names the cause, and execute
\* and bar log nothing.
C6_BadConfigExitsOne ==
    BadConfigRun =>
        /\ exitCode = 1
        /\ \E k \in 1 .. Len(log) :
              /\ log[k].level \in {"ERROR", "CRITICAL"}
              /\ log[k].msg \in {"config_file_not_found", "error_loading_config_file"}
        /\ ExecEvents = <<>>
        /\ executeState = "notcalled"

\* C7: once an Exception that no inner handler catches has been raised,
\* control is in main()'s outermost handler or past it; the Exception never
\* leaves main(); "Unhandled exception" is logged at most once, at CRITICAL,
\* and exactly once as soon as the handler's first statement has run; and
\* unless a termination signal ends the process first, main() returns and the
\* exit status is 1.
C7_UnhandledFaultCaught ==
    /\ mainResult # "Exception"
    /\ unhandled =>
        /\ pc \in {"except_Exception", "except_Exception_details", "return1",
                   "sys_exit_1", "exited"}
        /\ Cardinality(At("unhandled_exception")) <= 1
        /\ \A k \in At("unhandled_exception") :
              log[k].level = "CRITICAL" /\ log[k].src = "main"
        /\ (pc \in {"except_Exception_details", "return1", "sys_exit_1"}
              \/ (pc = "exited" /\ ~TermDelivered))
              => Cardinality(At("unhandled_exception")) = 1
        /\ pc = "sys_exit_1" => mainResult = "returned"
        /\ pc = "exited" => exitCode = 1
        /\ (pc = "exited" /\ ~TermDelivered) => mainResult = "returned"

\* An unexpected Exception was raised in check_prerequisites and the run ended
\* without a termination signal.
C7_Witness ==
    /\ unhandled
    /\ pc = "exited"
    /\ ~TermDelivered
    /\ At("unhandled_exception") # {}

\* The run got past argparse and ended without any signal.
QuietRun ==
    /\ pc = "exited"
    /\ ~args.help
    /\ exitCode \in {0, 1}
    /\ delivered = <<>>
    /\ ~kbdint

\* C8: a run that ends is preceded by exactly one log event explaining the
\* cause of its end.
C8_ExactlyOneCauseEvent == QuietRun => Len(CauseEvents) = 1

\* The dry-run scenario: no --config, no --log-file, --dry-run, every
\* prerequisite met, no signal and no unexpected Exception.
DryRunScenario ==
    /\ pc = "exited"
    /\ args.config = "none"
    /\ args.log_file = "none"
    /\ args.dry_run
    /\ ~args.help
    /\ Missing = {}
    /\ fault # "prereq"
    /\ delivered = <<>>
    /\ ~kbdint

\* C9 as stated: the execution stage of the dry-run scenario logs exactly
\* two INFO events, "would execute" and "would call bar".
C9_DryRunTwoEvents ==
    DryRunScenario =>
        /\ Len(ExecEvents) = 2
        /\ ExecEvents[1].msg = "would_execute_with_foo"
        /\ ExecEvents[2].msg = "would_call_bar"
        /\ ~barCalled
        /\ fileIO = {}
        /\ exitCode = 0

\* C9, amended: the execution stage of the dry-run scenario logs exactly
\* three INFO events, the dry-run banner, "would execute" and "would call
\* bar"; bar() is never called, no file is opened and the exit status is 0.
C9_DryRunThreeEvents ==
    DryRunScenario =>
        /\ Len(ExecEvents) = 3
        /\ \A k \in 1 .. 3 : ExecEvents[k].level = "INFO" /\ ExecEvents[k].src = "execute"
        /\ ExecEvents[1].msg = "dry_run_mode"
        /\ ExecEvents[2].msg = "would_execute_with_foo"
        /\ ExecEvents[3].msg = "would_call_bar"
        /\ ~barCalled
        /\ executeState = "returned"
        /\ fileIO = {}
        /\ exitCode = 0

\* The dry-run scenario ran to its end.
C9_Witness == DryRunScenario /\ exitCode = 0 /\ Len(required) > 0

\* C10 as stated: a run that logged the success event ends with status 0,
\* whatever signal arrives after the event.
C10_SuccessEventMeansZero ==
    (pc = "exited" /\ At("process_completed_successfully") # {}) => exitCode = 0

\* C10, amended: a run that logged the success event ends with status 0
\* unless a termination signal is handled after the event; then
\* signal_handler's WARNING follows the success event and the status is 1.
C10_SuccessEventMeansZeroUnlessTerminated ==
    (pc = "exited" /\ At("process_completed_successfully") # {}) =>
        \/ exitCode = 0 /\ ~TermDelivered
        \/ /\ exitCode = 1
           /\ TermDelivered
           /\ \A j \in At("process_completed_successfully") :
                 \A k \in At("terminated_by_signal") : j < k

\* The success event was logged, main() returned 0, and a termination signal
\* arrived before sys.exit.
C10_Witness ==
    /\ pc = "exited"
    /\ At("process_completed_successfully") # {}
    /\ mainResult = "returned"
    /\ TermDelivered

====
